---- MODULE Spec2Model ----
(***************************************************************************)
(* GovBrief: the mobile client's screens (DocumentListScreen, HomeScreen,  *)
(* ChatScreen) against the document lifecycle and chat-grounding backend   *)
(* they call over HTTP.                                                    *)
(*                                                                         *)
(* The client is modelled from the screens' source.  The backend (Document *)
(* Store, Ingestion Pipeline, Chat Grounding Service) is not part of the   *)
(* client sources; it is modelled from its written contract.               *)
(*                                                                         *)
(* Strings are ASCII.  The Korean literals of the source are romanised:    *)
(*   "bunseokwanryo"   = '분석완료'     "bunseok wanryo"   = '분석 완료'   *)
(*   "bunseokjung"     = '분석중'       "bunseok jung"     = '분석 중'     *)
(*   "eoprodeuwanryo"  = '업로드완료'   "eoprodeu wanryo"  = '업로드 완료' *)
(* A text is a sequence of tokens; the first token stands for the leading  *)
(* emoji of the source text, so that concatenation with a free-form error  *)
(* message is modelled as concatenation.                                   *)
(***************************************************************************)
EXTENDS Naturals, Sequences, FiniteSets, TLC

\* ------------------------------------------------------------------ bounds
\* Documents ever uploaded.
MaxDocs == 1
\* GET /api/v1/documents/ requests one screen has in flight at a time.
MaxFetches == 2
\* POST /api/v1/analyze requests of DocumentListScreen pending or unacknowledged at a time.
MaxPosts == 2
\* Questions ChatScreen sends in a behaviour.
MaxSends == 2
\* Files picked on DocumentUploadScreen, and documents created where their
\* order and identity are looked at.
MaxUploads == 2

VARIABLES
  \* ---- backend
  store,            \* Document Store: documents in creation order; document_id = index
  runs,             \* Ingestion Pipeline: per document, the runs in flight, each "post" when a
                    \* POST /api/v1/analyze of DocumentListScreen waits for it, else "none"
  srv_err,          \* outcome of the last update_status call
  api,              \* the deployed backend's listing shape and status dialect
  \* ---- which screen the behaviour observes (the screens share no client state)
  focus,
  \* ---- DocumentListScreen
  dl_documents, dl_loading, dl_refreshing,
  dl_fetches,       \* the GETs of fetchDocuments in flight, in the order of their issue:
                    \* overtaken when a GET issued later has already set documents,
                    \* response the answer on its way to the client, if any
  dl_dialog,        \* the analyze confirmation or 'already analyzed' alert shown
  dl_done,          \* 'analysis done' alerts shown and not yet acknowledged
  dl_posts,         \* per document, POST /api/v1/analyze sent and not yet taken up
  dl_searchText, dl_selectedFilter,
  \* ---- HomeScreen
  h_mounted, h_documents, h_notifications, h_loading, h_refreshing, h_fetches,
  \* ---- ChatScreen
  c_mounted, c_mountFetch, c_currentDocumentId, c_messages, c_isTyping, c_chat, c_sent,
  c_isSearchMode, c_searchText,
  c_foundIds,       \* the matching messages, each named by its place in messages
  c_currentMatchIndex,
  \* ---- DocumentUploadScreen
  u_uploadStatus, u_isUploading,
  u_picking,        \* the document picker is open
  u_post,           \* the POST /api/v1/documents/upload in flight, if any
  u_picks,          \* files picked or cancelled so far
  \* ---- the last handler that ran, with what it saw (history)
  last

srvVars  == <<store, runs, srv_err, api>>
dlVars   == <<dl_documents, dl_loading, dl_refreshing, dl_fetches, dl_dialog, dl_done, dl_posts>>
homeVars == <<h_mounted, h_documents, h_notifications, h_loading, h_refreshing, h_fetches>>
searchVars == <<c_isSearchMode, c_searchText, c_foundIds, c_currentMatchIndex>>
chatVars == <<c_mounted, c_mountFetch, c_currentDocumentId, c_messages, c_isTyping, c_chat, c_sent,
              c_isSearchMode, c_searchText, c_foundIds, c_currentMatchIndex>>
filterVars == <<dl_searchText, dl_selectedFilter>>
upVars   == <<u_uploadStatus, u_isUploading, u_picking, u_post, u_picks>>
vars     == <<store, runs, srv_err, api, focus,
              dl_documents, dl_loading, dl_refreshing, dl_fetches, dl_dialog, dl_done, dl_posts,
              dl_searchText, dl_selectedFilter,
              h_mounted, h_documents, h_notifications, h_loading, h_refreshing, h_fetches,
              c_mounted, c_mountFetch, c_currentDocumentId, c_messages, c_isTyping, c_chat, c_sent,
              c_isSearchMode, c_searchText, c_foundIds, c_currentMatchIndex,
              u_uploadStatus, u_isUploading, u_picking, u_post, u_picks,
              last>>

DocIds == 1..MaxUploads
\* document_id null
NoDoc == 0

\* ------------------------------------------------------- status vocabulary
Statuses == {"uploaded", "analyzing", "reanalyzing", "completed", "failed"}

\* The transition table of the Document Store.
Transitions ==
  { <<"uploaded", "analyzing">>,
    <<"analyzing", "completed">>, <<"analyzing", "failed">>,
    <<"completed", "reanalyzing">>,
    <<"reanalyzing", "completed">>, <<"reanalyzing", "failed">> }

Dialects == {"english", "analyzed", "legacy"}

\* The status string of a listed document: the English enum, 'analyzed' for
\* completed, or the historical Korean labels.
Emit(status, dialect) ==
  CASE dialect = "analyzed" /\ status = "completed" -> "analyzed"
    [] dialect = "legacy" /\ status = "uploaded"    -> "eoprodeuwanryo"
    [] dialect = "legacy" /\ status = "analyzing"   -> "bunseokjung"
    [] dialect = "legacy" /\ status = "completed"   -> "bunseokwanryo"
    [] OTHER -> status

\* -------------------------------------------------------------- the backend
NoContent == "null"
NoReason == "none"

\* The upload size limit, in MB.
SizeLimit == 10

\* The files an upload can carry: name, the mime type the picker reports for
\* it ("undefined" when it reports none), what the file is, its size in MB
\* and its bytes.
ReportPdf == [name |-> "report.pdf", mimeType |-> "application/pdf",
              kind |-> "application/pdf", size |-> 2, bytes |-> "b1"]
CopyPdf   == [name |-> "copy.pdf", mimeType |-> "application/pdf",
              kind |-> "application/pdf", size |-> 2, bytes |-> "b1"]
BigPdf    == [name |-> "big.pdf", mimeType |-> "application/pdf",
              kind |-> "application/pdf", size |-> 11, bytes |-> "b2"]
NotesTxt  == [name |-> "notes.txt", mimeType |-> "text/plain",
              kind |-> "text/plain", size |-> 1, bytes |-> "b3"]
NotesDat  == [name |-> "notes.dat", mimeType |-> "undefined",
              kind |-> "text/plain", size |-> 1, bytes |-> "b3"]
Files == {ReportPdf, CopyPdf, BigPdf, NotesTxt, NotesDat}

\* pdf, doc/docx, image/*.
SupportedMime(mime) ==
  mime \in {"application/pdf", "application/msword",
            "application/vnd.openxmlformats-officedocument.wordprocessingml.document",
            "image/png", "image/jpeg"}

\* A create that derives the id from the file name.
create_idFromName(st, bytes, size, filename, mime_type) ==
  IF size > SizeLimit \/ ~SupportedMime(mime_type)
    THEN [store |-> st, err |-> "ValidationError", document_id |-> NoDoc]
    ELSE [store |-> Append(st, [document_id |-> Len(filename), filename |-> filename,
                                created_at |-> Len(st) + 1, bytes |-> bytes,
                                status |-> "uploaded", content |-> NoContent,
                                reason |-> NoReason]),
          err |-> "ok", document_id |-> Len(filename)]

\* create(file_bytes, filename, mime_type): the store after the call, its
\* outcome and the id of the document created.
create(st, bytes, size, filename, mime_type) ==
  IF size > SizeLimit \/ ~SupportedMime(mime_type)
    THEN [store |-> st, err |-> "ValidationError", document_id |-> NoDoc]
    ELSE [store |-> Append(st, [document_id |-> Len(st) + 1, filename |-> filename,
                                created_at |-> Len(st) + 1, bytes |-> bytes,
                                status |-> "uploaded", content |-> NoContent,
                                reason |-> NoReason]),
          err |-> "ok", document_id |-> Len(st) + 1]

RECURSIVE Reverse(_)
Reverse(s) == IF s = <<>> THEN <<>> ELSE Append(Reverse(Tail(s)), Head(s))

\* A list() in creation order.
List_oldestFirst(st, dialect) ==
  [i \in 1..Len(st) |->
     [document_id |-> st[i].document_id, filename |-> st[i].filename,
      created_at |-> st[i].created_at, status |-> Emit(st[i].status, dialect)]]

\* list(): the documents, newest first.
List(st, dialect) ==
  Reverse([i \in 1..Len(st) |->
            [document_id |-> st[i].document_id, filename |-> st[i].filename,
             created_at |-> st[i].created_at, status |-> Emit(st[i].status, dialect)]])

\* The body of GET /api/v1/documents/: {documents: [...]} or a bare array.
ListResponse(st, a) ==
  IF a.shape = "wrapped"
    THEN [kind |-> "object", documents |-> List(st, a.dialect)]
    ELSE [kind |-> "array", items |-> List(st, a.dialect)]

\* The documents a listing body carries.
Carried(data) == IF data.kind = "object" THEN data.documents ELSE data.items

\* A store whose update_status applies every write, legal or not.
update_status_any(st, d, new, content) ==
  [store |-> [st EXCEPT ![d].status = new,
                        ![d].content = IF content = NoContent THEN @ ELSE content],
   err   |-> "ok"]

\* An update_status that stores the content argument even when it is omitted.
update_status_overwrites(st, d, new, content) ==
  IF <<st[d].status, new>> \in Transitions
    THEN [store |-> [st EXCEPT ![d].status = new, ![d].content = content],
          err   |-> "ok"]
    ELSE [store |-> st, err |-> "InvalidTransitionError"]

\* update_status(document_id, new_status, content?): the store after the call
\* and its outcome.
update_status(st, d, new, content) ==
  IF <<st[d].status, new>> \in Transitions
    THEN [store |-> [st EXCEPT ![d].status = new,
                               ![d].content = IF content = NoContent THEN @ ELSE content],
          err   |-> "ok"]
    ELSE [store |-> st, err |-> "InvalidTransitionError"]

\* The history after update_status(d, new) on a document in status old: a
\* write outside the table, or a refused one, is recorded.
StatusWrite(d, old, new, err) ==
  IF err = "ok" /\ <<old, new>> \in Transitions THEN [op |-> "-"]
  ELSE [op |-> "update_status", doc |-> d, old |-> old, new |-> new, err |-> err]

\* An extraction that lets the file name into the text.
Extract_namesFile(st, d) == "text of " \o st[d].filename

\* The text the extractor yields for a document's bytes.
Extract(st, d) == "text of " \o st[d].bytes

\* --------------------------------------- the clients' reading of a listing
\* DocumentListScreen.fetchDocuments: response.data.documents || response.data || []
\* (an array, empty or not, is truthy; an array has no .documents).
DL_docsOf(data) ==
  IF data.kind = "object" THEN data.documents ELSE data.items

\* HomeScreen.fetchDocuments: response.data.documents || []
Home_docsOf(data) ==
  IF data.kind = "object" THEN data.documents ELSE <<>>

\* ChatScreen.fetchLatestDocument: response.data.documents || []
Chat_docsOf(data) ==
  IF data.kind = "object" THEN data.documents ELSE <<>>

\* ------------------------------------------- DocumentListScreen: statuses
\* The case labels of getStatusText's switch.
DL_textCases == {"completed", "analyzed", "bunseokwanryo", "analyzing", "reanalyzing", "uploaded"}

\* getStatusText, had its switch no default branch.
DL_getStatusText_noDefault(status) ==
  CASE status \in {"completed", "analyzed", "bunseokwanryo"} -> "bunseok wanryo"
    [] status \in {"analyzing", "reanalyzing"}                -> "bunseok jung"
    [] status = "uploaded"                                    -> "eoprodeu wanryo"
    [] OTHER                                                  -> "undefined"

DL_getStatusText(status) ==
  CASE status \in {"completed", "analyzed", "bunseokwanryo"} -> "bunseok wanryo"
    [] status \in {"analyzing", "reanalyzing"}                -> "bunseok jung"
    [] status = "uploaded"                                    -> "eoprodeu wanryo"
    [] OTHER                                                  -> "eoprodeu wanryo"

\* The case labels of getStatusColor's switch.
DL_colorCases ==
  {"bunseokwanryo", "bunseok wanryo", "completed", "analyzed",
   "bunseokjung", "bunseok jung", "analyzing", "reanalyzing",
   "eoprodeuwanryo", "eoprodeu wanryo", "uploaded"}

DL_getStatusColor(status) ==
  CASE status \in {"bunseokwanryo", "bunseok wanryo", "completed", "analyzed"}  -> "#4CAF50"
    [] status \in {"bunseokjung", "bunseok jung", "analyzing", "reanalyzing"}   -> "#FF9800"
    [] status \in {"eoprodeuwanryo", "eoprodeu wanryo", "uploaded"}             -> "#2196F3"
    [] OTHER                                                                    -> "#666"

DL_getStatusIcon(status) ==
  CASE status \in {"bunseokwanryo", "completed", "analyzed"}   -> "check"
    [] status \in {"bunseokjung", "analyzing", "reanalyzing"}  -> "cycle"
    [] OTHER                                                   -> "page"

\* The status badge of a document card: its text, and the colour of that text.
DL_badge(status) ==
  [text  |-> DL_getStatusText(status),
   color |-> DL_getStatusColor(DL_getStatusText(status))]

\* filterCategories: all, upload complete, in analysis, analysis complete.
DL_filterCategories == <<"jeonche", "eoprodeu wanryo", "bunseok jung", "bunseok wanryo">>

\* String.prototype.toLowerCase, on the letters the texts here are made of.
DL_lowerChar(c) ==
  CASE c = "C" -> "c" [] c = "D" -> "d" [] c = "E" -> "e" [] c = "F" -> "f"
    [] c = "O" -> "o" [] c = "P" -> "p" [] c = "R" -> "r" [] c = "T" -> "t"
    [] OTHER -> c

RECURSIVE DL_toLowerCase(_)
DL_toLowerCase(text) ==
  IF text = "" THEN ""
  ELSE DL_lowerChar(SubSeq(text, 1, 1)) \o DL_toLowerCase(SubSeq(text, 2, Len(text)))

\* String.prototype.includes: part occurs in text at some position.
DL_includes(text, part) ==
  \E i \in 1..(Len(text) + 1) :
    /\ i + Len(part) - 1 <= Len(text)
    /\ SubSeq(text, i, i + Len(part) - 1) = part

\* getFilteredDocuments, for a search text and a selected filter.
DL_getFilteredDocuments(documents, searchText, selectedFilter) ==
  LET matches(doc) ==
        LET matchesSearch ==
              DL_includes(DL_toLowerCase(doc.filename), DL_toLowerCase(searchText))
            matchesFilter ==
              IF selectedFilter # "jeonche"
                THEN DL_getStatusText(doc.status) = selectedFilter
                ELSE TRUE
        IN matchesSearch /\ matchesFilter
  IN SelectSeq(documents, matches)

\* The analyze dialog, were it offered for a document of any status.
DL_canAnalyze_any(status) == TRUE

\* The card tap and the analyze button open the analyze dialog for these.
DL_canAnalyze(status) == status \in {"uploaded", "eoprodeuwanryo", "eoprodeu wanryo"}

\* The card tap shows 'already analyzed' for these.
DL_alreadyAnalyzed(status) == status \in {"analyzed", "completed"}

\* ---------------------------------------------------- HomeScreen: statuses
Home_colorCases ==
  {"bunseokwanryo", "completed", "analyzed", "bunseokjung", "analyzing",
   "eoprodeuwanryo", "uploaded"}

Home_getStatusColor(status) ==
  CASE status \in {"bunseokwanryo", "completed", "analyzed"} -> "#4CAF50"
    [] status \in {"bunseokjung", "analyzing"}               -> "#FF9800"
    [] status \in {"eoprodeuwanryo", "uploaded"}             -> "#2196F3"
    [] OTHER                                                 -> "#999"

Home_textCases == {"completed", "analyzing", "uploaded"}

Home_getStatusText(status) ==
  CASE status = "completed" -> "bunseokwanryo"
    [] status = "analyzing" -> "bunseokjung"
    [] status = "uploaded"  -> "eoprodeuwanryo"
    [] OTHER                -> status

\* fetchDocuments' completedDocs filter.
Home_isCompletedDoc(status) == status \in {"completed", "bunseokwanryo"}

\* handleMainCardPress navigates to the documents for these.
Home_mainCardNavigates(status) == status \in {"bunseokwanryo", "completed"}

\* The main notification card's title.
Home_mainCardTitle(status) ==
  IF status \in {"bunseokjung", "analyzing"} THEN "in-progress" ELSE "complete"

\* ------------------------------------------------------------------- Init
Screens == {"Documents", "Home", "Chat"}

Welcome == [id |-> <<"welcome">>, type |-> "info", read |-> FALSE]

Greeting == <<"greeting">>

\* The history after a handler no property asks about.
Quiet == [op |-> "-"]

NoDialog == [kind |-> "none", doc |-> NoDoc]

InitOn(screens) ==
  /\ store = <<>>
  /\ runs = [d \in DocIds |-> <<>>]
  /\ srv_err = "ok"
  /\ api \in [shape : {"wrapped", "bare"}, dialect : Dialects]
  /\ focus \in screens
  /\ dl_documents = <<>>
  /\ dl_loading = TRUE
  /\ dl_refreshing = FALSE
  /\ dl_fetches = <<>>
  /\ dl_dialog = NoDialog
  /\ dl_done = 0
  /\ dl_posts = [d \in DocIds |-> 0]
  /\ dl_searchText = ""
  /\ dl_selectedFilter = "jeonche"
  /\ h_mounted = FALSE
  /\ h_documents = <<>>
  /\ h_notifications = <<Welcome>>
  /\ h_loading = TRUE
  /\ h_refreshing = FALSE
  /\ h_fetches = 0
  /\ c_mounted = FALSE
  /\ c_mountFetch = FALSE
  /\ c_currentDocumentId = NoDoc
  /\ c_messages = <<[isUser |-> FALSE, text |-> Greeting]>>
  /\ c_isTyping = FALSE
  /\ c_chat = <<>>
  /\ c_sent = 0
  /\ c_isSearchMode = FALSE
  /\ c_searchText = ""
  /\ c_foundIds = <<>>
  /\ c_currentMatchIndex = 0
  /\ u_uploadStatus = "select a file"
  /\ u_isUploading = FALSE
  /\ u_picking = FALSE
  /\ u_post = <<>>
  /\ u_picks = 0
  /\ last = Quiet

\* One of the screens that list the documents is observed.
Init == InitOn(Screens)

RemoveAt(s, i) == [j \in 1..(Len(s) - 1) |-> IF j < i THEN s[j] ELSE s[j + 1]]

\* ------------------------------------------------- backend: store, pipeline
\* create(file_bytes, filename, mime_type): a new document, status uploaded.
Upload ==
  /\ Len(store) < MaxDocs
  /\ store' = create(store, ReportPdf.bytes, ReportPdf.size, ReportPdf.name,
                     ReportPdf.mimeType).store
  /\ last' = Quiet
  /\ UNCHANGED <<runs, srv_err, api, focus, upVars, filterVars>>
  /\ UNCHANGED <<dlVars, homeVars, chatVars>>

\* POST /api/v1/documents/upload of a valid file from any client.
UploadAnother(file) ==
  /\ Len(store) < MaxUploads
  /\ LET r == create(store, file.bytes, file.size, file.name, file.mimeType) IN
       /\ r.err = "ok"
       /\ store' = r.store
  /\ last' = Quiet
  /\ UNCHANGED <<runs, srv_err, api, focus, upVars, filterVars>>
  /\ UNCHANGED <<dlVars, homeVars, chatVars>>

\* The pipeline's trigger after create: the run starts by moving the document
\* to analyzing.
StartIngestion(d) ==
  /\ d \in 1..Len(store)
  /\ store[d].status = "uploaded"
  /\ LET r == update_status(store, d, "analyzing", NoContent) IN
       /\ store' = r.store
       /\ srv_err' = r.err
       /\ runs' = IF r.err = "ok" THEN [runs EXCEPT ![d] = Append(@, "none")] ELSE runs
       /\ last' = StatusWrite(d, store[d].status, "analyzing", r.err)
  /\ UNCHANGED <<api, focus, upVars, filterVars>>
  /\ UNCHANGED <<dlVars, homeVars, chatVars>>

\* A run that ends on an extractor failure without writing failed.
FinishIngestion_silentFailure(d, i, outcome) ==
  /\ d \in 1..Len(store)
  /\ i \in 1..Len(runs[d])
  /\ LET r == IF outcome = "failed"
                THEN [store |-> store, err |-> "ok"]
                ELSE update_status(store, d, outcome, Extract(store, d)) IN
       /\ store' = r.store
       /\ srv_err' = r.err
       /\ last' = Quiet
  /\ runs' = [runs EXCEPT ![d] = RemoveAt(@, i)]
  /\ dl_done' = IF runs[d][i] = "post" /\ outcome = "completed" THEN dl_done + 1 ELSE dl_done
  /\ UNCHANGED <<api, focus, upVars, filterVars>>
  /\ UNCHANGED <<dl_documents, dl_loading, dl_refreshing, dl_fetches, dl_dialog, dl_posts>>
  /\ UNCHANGED <<homeVars, chatVars>>

\* A run ends: it writes completed with the extracted content, or failed.  A
\* run started by POST /api/v1/analyze then answers that request:
\* analyzeDocument shows the 'analysis done' alert on {summary}, and the
\* failure alert (one button, no handler) on an error.
FinishIngestion(d, i, outcome) ==
  /\ d \in 1..Len(store)
  /\ i \in 1..Len(runs[d])
  /\ LET r == update_status(store, d, outcome,
                            IF outcome = "completed" THEN Extract(store, d) ELSE NoContent) IN
       /\ store' = IF outcome = "failed" /\ r.err = "ok"
                     THEN [r.store EXCEPT ![d].reason = "extractor failed"]
                     ELSE r.store
       /\ srv_err' = r.err
       /\ last' = StatusWrite(d, store[d].status, outcome, r.err)
  /\ runs' = [runs EXCEPT ![d] = RemoveAt(@, i)]
  /\ dl_done' = IF runs[d][i] = "post" /\ outcome = "completed" THEN dl_done + 1 ELSE dl_done
  /\ UNCHANGED <<api, focus, upVars, filterVars>>
  /\ UNCHANGED <<dl_documents, dl_loading, dl_refreshing, dl_fetches, dl_dialog, dl_posts>>
  /\ UNCHANGED <<homeVars, chatVars>>

\* POST /api/v1/analyze {document_id} reaches the backend: a completed document
\* is re-analysed, any other is analysed; the status write decides whether the
\* run starts.  A refused request is answered with an error at once, and
\* analyzeDocument shows the failure alert.
ServerAnalyze(d) ==
  /\ d \in 1..Len(store)
  /\ dl_posts[d] > 0
  /\ LET new == IF store[d].status = "completed" THEN "reanalyzing" ELSE "analyzing"
         r   == update_status(store, d, new, NoContent) IN
       /\ store' = r.store
       /\ srv_err' = r.err
       /\ runs' = IF r.err = "ok" THEN [runs EXCEPT ![d] = Append(@, "post")] ELSE runs
       /\ last' = StatusWrite(d, store[d].status, new, r.err)
  /\ dl_posts' = [dl_posts EXCEPT ![d] = @ - 1]
  /\ UNCHANGED <<api, focus, upVars, filterVars>>
  /\ UNCHANGED <<dl_documents, dl_loading, dl_refreshing, dl_fetches, dl_dialog, dl_done>>
  /\ UNCHANGED <<homeVars, chatVars>>

\* POST /api/v1/analyze {document_id} from a client other than the screen
\* observed: the same handler; nobody here waits for the answer.
AnalyzeRequest(d) ==
  /\ d \in 1..Len(store)
  /\ LET new == IF store[d].status = "completed" THEN "reanalyzing" ELSE "analyzing"
         r   == update_status(store, d, new, NoContent) IN
       /\ store' = r.store
       /\ srv_err' = r.err
       /\ runs' = IF r.err = "ok" THEN [runs EXCEPT ![d] = Append(@, "none")] ELSE runs
       /\ last' = StatusWrite(d, store[d].status, new, r.err)
  /\ UNCHANGED <<api, focus, upVars, filterVars>>
  /\ UNCHANGED <<dlVars, homeVars, chatVars>>

\* Any other caller of update_status, with a pair the table does not hold.
IllegalUpdate(d, new) ==
  /\ d \in 1..Len(store)
  /\ new \in Statuses
  /\ <<store[d].status, new>> \notin Transitions
  /\ LET r == update_status(store, d, new, NoContent) IN
       /\ store' = r.store
       /\ srv_err' = r.err
       /\ last' = StatusWrite(d, store[d].status, new, r.err)
  /\ UNCHANGED <<runs, api, focus, upVars, filterVars>>
  /\ UNCHANGED <<dlVars, homeVars, chatVars>>

\* ---------------------------------------------------- DocumentListScreen
\* A run of fetchDocuments up to its await: the GET is in flight.
DL_newFetch == [overtaken |-> FALSE, response |-> <<>>]

\* useFocusEffect: the screen gains focus and calls fetchDocuments().
DLFocus ==
  /\ focus = "Documents"
  /\ Len(dl_fetches) < MaxFetches
  /\ dl_fetches' = Append(dl_fetches, DL_newFetch)
  /\ last' = Quiet
  /\ UNCHANGED <<dl_documents, dl_loading, dl_refreshing, dl_dialog, dl_done, dl_posts>>
  /\ UNCHANGED <<srvVars, focus, upVars, filterVars, homeVars, chatVars>>

\* onRefresh: setRefreshing(true); fetchDocuments().
DLRefresh ==
  /\ focus = "Documents"
  /\ Len(dl_fetches) < MaxFetches
  /\ dl_refreshing' = TRUE
  /\ dl_fetches' = Append(dl_fetches, DL_newFetch)
  /\ last' = Quiet
  /\ UNCHANGED <<dl_documents, dl_loading, dl_dialog, dl_done, dl_posts>>
  /\ UNCHANGED <<srvVars, focus, upVars, filterVars, homeVars, chatVars>>

\* GET /api/v1/documents of the i-th fetch in flight is answered by the
\* backend; the response is on its way to the client.
DLFetchAnswered ==
  /\ \E i \in 1..Len(dl_fetches) :
       /\ dl_fetches[i].response = <<>>
       /\ dl_fetches' = [dl_fetches EXCEPT ![i].response = <<ListResponse(store, api)>>]
  /\ last' = Quiet
  /\ UNCHANGED <<dl_documents, dl_loading, dl_refreshing, dl_dialog, dl_done, dl_posts>>
  /\ UNCHANGED <<srvVars, focus, upVars, filterVars, homeVars, chatVars>>

\* The GETs left in flight when the i-th of them has set documents: those
\* issued before it are from now on older than the list on the screen.
DL_fetchesAfter(fetches, i) ==
  RemoveAt([j \in 1..Len(fetches) |->
              [fetches[j] EXCEPT !.overtaken = @ \/ j < i]], i)

\* fetchDocuments, the response of one of the GETs in flight arrives, in any
\* order (one not yet answered is answered and arrives at once):
\* try { setDocuments(docs) } finally { ... }. No run of fetchDocuments knows
\* of another.
DLFetchOk ==
  /\ \E i \in 1..Len(dl_fetches) :
       LET data == IF dl_fetches[i].response = <<>>
                     THEN ListResponse(store, api) ELSE dl_fetches[i].response[1] IN
         /\ dl_documents' = DL_docsOf(data)
         /\ last' = [op |-> "DLFetchOk", data |-> data,
                     overtaken |-> dl_fetches[i].overtaken]
         /\ dl_fetches' = DL_fetchesAfter(dl_fetches, i)
  /\ dl_loading' = FALSE
  /\ dl_refreshing' = FALSE
  /\ UNCHANGED <<dl_dialog, dl_done, dl_posts>>
  /\ UNCHANGED <<srvVars, focus, upVars, filterVars, homeVars, chatVars>>

\* The documents after fetchDocuments' catch block, had it cleared the list.
DL_documentsAfterFailure_cleared(documents) == <<>>

\* The documents after fetchDocuments' catch block: it only logs.
DL_documentsAfterFailure(documents) == documents

\* fetchDocuments, the GET failed (HTTP error, network error, timeout):
\* catch { console.error } finally { setLoading(false); setRefreshing(false) }.
DLFetchFail ==
  /\ \E i \in 1..Len(dl_fetches) : dl_fetches' = RemoveAt(dl_fetches, i)
  /\ dl_documents' = DL_documentsAfterFailure(dl_documents)
  /\ dl_loading' = FALSE
  /\ dl_refreshing' = FALSE
  /\ last' = [op |-> "DLFetchFail"]
  /\ UNCHANGED <<dl_dialog, dl_done, dl_posts>>
  /\ UNCHANGED <<srvVars, focus, upVars, filterVars, homeVars, chatVars>>

\* The search texts typed into the list's search field.
DL_SearchTexts == {"", "PDF", "Copy", "x"}

\* onChangeText={setSearchText}, or the clear icon with "".
DLSearchEdit(text) ==
  /\ focus = "Documents"
  /\ text # dl_searchText
  /\ dl_searchText' = text
  /\ last' = Quiet
  /\ UNCHANGED dl_selectedFilter
  /\ UNCHANGED <<srvVars, focus, upVars, dlVars, homeVars, chatVars>>

\* A filter chip: setSelectedFilter(category).
DLSelectFilter(category) ==
  /\ focus = "Documents"
  /\ category # dl_selectedFilter
  /\ dl_selectedFilter' = category
  /\ last' = Quiet
  /\ UNCHANGED dl_searchText
  /\ UNCHANGED <<srvVars, focus, upVars, dlVars, homeVars, chatVars>>

\* The card tap or the analyze button on the i-th listed document:
\* analyzeDocument opens the confirmation dialog; the card tap on an analysed
\* document shows the 'already analyzed' alert.
DLTap(i) ==
  /\ focus = "Documents"
  /\ dl_dialog = NoDialog
  /\ dl_done = 0
  /\ i \in 1..Len(dl_documents)
  /\ LET doc == dl_documents[i] IN
       /\ DL_canAnalyze(doc.status) \/ DL_alreadyAnalyzed(doc.status)
       /\ dl_dialog' = [kind |-> IF DL_canAnalyze(doc.status) THEN "confirm" ELSE "info",
                        doc |-> doc.document_id]
       /\ last' = [op |-> "DLTap", doc |-> doc.document_id, status |-> doc.status]
  /\ UNCHANGED <<dl_documents, dl_loading, dl_refreshing, dl_fetches, dl_done, dl_posts>>
  /\ UNCHANGED <<srvVars, focus, upVars, filterVars, homeVars, chatVars>>

\* POST /api/v1/analyze requests sent and not yet answered.
RECURSIVE CountPosts(_)
CountPosts(s) == IF s = <<>> THEN 0
                 ELSE (IF Head(s) = "post" THEN 1 ELSE 0) + CountPosts(Tail(s))

RECURSIVE PostsPending(_)
PostsPending(D) ==
  IF D = {} THEN 0
  ELSE LET d == CHOOSE x \in D : TRUE IN
         dl_posts[d] + CountPosts(runs[d]) + PostsPending(D \ {d})

\* The confirmation dialog's second button: POST /api/v1/analyze is sent.
DLConfirm ==
  /\ dl_dialog.kind = "confirm"
  /\ PostsPending(DocIds) + dl_done < MaxPosts
  /\ dl_posts' = [dl_posts EXCEPT ![dl_dialog.doc] = @ + 1]
  /\ dl_dialog' = NoDialog
  /\ last' = [op |-> "DLConfirm", doc |-> dl_dialog.doc]
  /\ UNCHANGED <<dl_documents, dl_loading, dl_refreshing, dl_fetches, dl_done>>
  /\ UNCHANGED <<srvVars, focus, upVars, filterVars, homeVars, chatVars>>

\* The confirmation dialog's cancel button, or the button of the 'already
\* analyzed' alert.  Nothing is sent.
DLDismiss ==
  /\ dl_dialog # NoDialog
  /\ dl_dialog' = NoDialog
  /\ last' = Quiet
  /\ UNCHANGED <<dl_documents, dl_loading, dl_refreshing, dl_fetches, dl_done, dl_posts>>
  /\ UNCHANGED <<srvVars, focus, upVars, filterVars, homeVars, chatVars>>

\* The button of the 'analysis done' alert: fetchDocuments().
DLDoneOk ==
  /\ dl_done > 0
  /\ Len(dl_fetches) < MaxFetches
  /\ dl_done' = dl_done - 1
  /\ dl_fetches' = Append(dl_fetches, DL_newFetch)
  /\ last' = Quiet
  /\ UNCHANGED <<dl_documents, dl_loading, dl_refreshing, dl_dialog, dl_posts>>
  /\ UNCHANGED <<srvVars, focus, upVars, filterVars, homeVars, chatVars>>

\* POST /api/v1/analyze fails at the client before the backend took it up
\* (network error): the failure alert.
DLAnalyzeLost(d) ==
  /\ d \in DocIds
  /\ dl_posts[d] > 0
  /\ dl_posts' = [dl_posts EXCEPT ![d] = @ - 1]
  /\ last' = Quiet
  /\ UNCHANGED <<dl_documents, dl_loading, dl_refreshing, dl_fetches, dl_dialog, dl_done>>
  /\ UNCHANGED <<srvVars, focus, upVars, filterVars, homeVars, chatVars>>

\* POST /api/v1/analyze runs into the client's 30 s timeout while its run is
\* in flight: the failure alert; the run goes on without a request to answer.
DLAnalyzeTimeout(d, i) ==
  /\ d \in DocIds
  /\ i \in 1..Len(runs[d])
  /\ runs[d][i] = "post"
  /\ runs' = [runs EXCEPT ![d][i] = "none"]
  /\ last' = Quiet
  /\ UNCHANGED <<dlVars, store, srv_err, api, focus, upVars, filterVars, homeVars, chatVars>>

\* ------------------------------------------------------------- HomeScreen
\* completedDocs.slice(0, 3)
NotificationLimit == 3

FirstN(s, n) == SubSeq(s, 1, IF Len(s) < n THEN Len(s) ELSE n)

Home_isCompletedRow(doc) == Home_isCompletedDoc(doc.status)

Home_isInfo(n) == n.type = "info"

\* fetchDocuments' setNotifications: the completion notifications of the first
\* three completed documents, unread, before the info notifications kept.
Home_notificationsAfter(docs, prev) ==
  LET completedDocs == SelectSeq(docs, Home_isCompletedRow)
      picked        == FirstN(completedDocs, NotificationLimit)
      fresh         == [k \in 1..Len(picked) |->
                          [id |-> <<"complete", picked[k].document_id>>,
                           type |-> "complete", read |-> FALSE]]
  IN IF Len(docs) > 0 /\ Len(completedDocs) > 0
       THEN fresh \o SelectSeq(prev, Home_isInfo)
       ELSE prev

\* useEffect(() => { fetchDocuments() }, []).
HomeMount ==
  /\ focus = "Home"
  /\ ~h_mounted
  /\ h_mounted' = TRUE
  /\ h_fetches' = h_fetches + 1
  /\ last' = Quiet
  /\ UNCHANGED <<h_documents, h_notifications, h_loading, h_refreshing>>
  /\ UNCHANGED <<srvVars, focus, upVars, filterVars, dlVars, chatVars>>

\* onRefresh: setRefreshing(true); fetchDocuments().
HomeRefresh ==
  /\ focus = "Home"
  /\ h_mounted
  /\ h_fetches < MaxFetches
  /\ h_refreshing' = TRUE
  /\ h_fetches' = h_fetches + 1
  /\ last' = Quiet
  /\ UNCHANGED <<h_mounted, h_documents, h_notifications, h_loading>>
  /\ UNCHANGED <<srvVars, focus, upVars, filterVars, dlVars, chatVars>>

\* fetchDocuments, the GET answered.
HomeFetchOk ==
  /\ h_fetches > 0
  /\ LET data == ListResponse(store, api)
         docs == Home_docsOf(data) IN
       /\ h_documents' = docs
       /\ h_notifications' = Home_notificationsAfter(docs, h_notifications)
       /\ last' = [op |-> "HomeFetchOk", data |-> data]
  /\ h_loading' = FALSE
  /\ h_refreshing' = FALSE
  /\ h_fetches' = h_fetches - 1
  /\ UNCHANGED h_mounted
  /\ UNCHANGED <<srvVars, focus, upVars, filterVars, dlVars, chatVars>>

\* fetchDocuments, the GET failed: catch { console.error } finally { ... }.
HomeFetchFail ==
  /\ h_fetches > 0
  /\ h_loading' = FALSE
  /\ h_refreshing' = FALSE
  /\ h_fetches' = h_fetches - 1
  /\ last' = [op |-> "HomeFetchFail"]
  /\ UNCHANGED <<h_mounted, h_documents, h_notifications>>
  /\ UNCHANGED <<srvVars, focus, upVars, filterVars, dlVars, chatVars>>

\* handleNotificationItemPress(id, type) on the i-th notification.
HomeNotificationPress(i) ==
  /\ focus = "Home"
  /\ h_mounted
  /\ i \in 1..Len(h_notifications)
  /\ h_notifications' = [k \in 1..Len(h_notifications) |->
                           IF h_notifications[k].id = h_notifications[i].id
                             THEN [h_notifications[k] EXCEPT !.read = TRUE]
                             ELSE h_notifications[k]]
  /\ last' = [op |-> "HomeNotificationPress", id |-> h_notifications[i].id]
  /\ UNCHANGED <<h_mounted, h_documents, h_loading, h_refreshing, h_fetches>>
  /\ UNCHANGED <<srvVars, focus, upVars, filterVars, dlVars, chatVars>>

\* ------------------------------------------- backend: chat grounding service
NoResponse == 0

\* answer(document_id | null, question, max_tokens): the HTTP answers the
\* service may give.  No document selected: a generic answer or
\* NoDocumentSelectedError, by policy.  Unknown document: NotFoundError.  A
\* document with readable content (completed, or being re-analysed): a
\* grounded answer, or an upstream failure.  Any other document:
\* DocumentNotReadyError.
ChatAnswers(st, docId) ==
  LET none     == [answer |-> "undefined", response |-> "undefined"]
      ok       == { [http |-> 200, error |-> "none", data |-> [answer |-> a, response |-> r]] :
                      a \in {"A", "", "undefined"}, r \in {"R", "", "undefined"} }
      upstream == { [http |-> 500, error |-> "UpstreamUnavailableError", data |-> none],
                    [http |-> 504, error |-> "UpstreamTimeoutError", data |-> none] }
  IN CASE docId = NoDoc ->
            ok \cup { [http |-> 404, error |-> "NoDocumentSelectedError", data |-> none] }
       [] docId \notin 1..Len(st) ->
            { [http |-> 404, error |-> "NotFoundError", data |-> none] }
       [] st[docId].status \in {"completed", "reanalyzing"} ->
            ok \cup upstream
       [] OTHER ->
            { [http |-> 404, error |-> "DocumentNotReadyError", data |-> none] }

\* ------------------------------------------------------------- ChatScreen
\* max_tokens of every chat request.
MaxTokens == 1000

TimeoutText  == <<"alarm-clock", "response timed out, try again">>
NoDocText    == <<"page", "upload and analyze a document first">>
ServerText   == <<"wrench", "temporary server problem, try again later">>
FallbackText == <<"AI response not received">>
GenericText(message) == <<"cross-mark", "connection error:">> \o message

\* The errors axios rejects with: the client timeout, a network error, or an
\* HTTP status outside 2xx.
TimeoutError == [code |-> "ECONNABORTED", status |-> NoResponse,
                 message |-> <<"timeout of 30000ms exceeded">>]
NetworkError == [code |-> "ERR_NETWORK", status |-> NoResponse,
                 message |-> <<"Network Error">>]
HttpError(http) == [code |-> IF http < 500 THEN "ERR_BAD_REQUEST" ELSE "ERR_BAD_RESPONSE",
                    status |-> http,
                    message |-> <<"Request failed with status code", ToString(http)>>]

\* A catch block with the generic branch only.
ErrorReply_generic(error) == GenericText(error.message)

\* A catch block without the 404 branch.
ErrorReply_no404(error) ==
  IF error.code = "ECONNABORTED" THEN TimeoutText
  ELSE IF error.status = 500 THEN ServerText
  ELSE GenericText(error.message)

\* sendMessageToBackend's catch block.
ErrorReply(error) ==
  IF error.code = "ECONNABORTED" THEN TimeoutText
  ELSE IF error.status = 404 THEN NoDocText
  ELSE IF error.status = 500 THEN ServerText
  ELSE GenericText(error.message)

\* A return statement without the || fallbacks.
SuccessReply_answerOnly(data) == <<data.answer>>

\* JavaScript truthiness of a response field.
Truthy(v) == v \notin {"undefined", ""}

\* response.data.answer || response.data.response || 'AI ...'
SuccessReply(data) ==
  IF Truthy(data.answer) THEN <<data.answer>>
  ELSE IF Truthy(data.response) THEN <<data.response>>
  ELSE FallbackText

NoAnswer == [http |-> NoResponse, error |-> "none",
             data |-> [answer |-> "undefined", response |-> "undefined"]]
NoError  == [code |-> "none", status |-> NoResponse, message |-> <<>>]

\* What a pending chat request can end in at the client.
ChatOutcomes(st, request) ==
  { [kind |-> IF a.http = 200 THEN "response" ELSE "error",
     server |-> a,
     error |-> IF a.http = 200 THEN NoError ELSE HttpError(a.http)] :
      a \in ChatAnswers(st, request.document_id) }
  \cup { [kind |-> "error", server |-> NoAnswer, error |-> TimeoutError],
         [kind |-> "error", server |-> NoAnswer, error |-> NetworkError] }

\* sendMessageToBackend's result for an outcome.
ReplyOf(outcome) ==
  IF outcome.kind = "response" THEN SuccessReply(outcome.server.data)
  ELSE ErrorReply(outcome.error)

Questions == {"q"}

\* The search texts typed: none, blanks only, the question, an answer, a
\* word no message holds.
SearchTexts == {"", " ", "q", "A", "x"}

\* searchText.trim().
Chat_trim(searchText) == IF searchText \in {"", " "} THEN "" ELSE searchText

\* msg.text.includes(searchText), for a search text of one word: the message
\* holds the word.  (The third element of the selection message is the
\* document's id, which no search text names.)
Chat_includes(text, searchText) ==
  \E k \in 1..Len(text) : k <= 2 /\ text[k] = searchText

\* messages.filter(msg => msg.text.includes(searchText)).map(msg => msg.id).
Chat_matches(messages, searchText) ==
  LET F[k \in 0..Len(messages)] ==
        IF k = 0 THEN <<>>
        ELSE IF Chat_includes(messages[k].text, searchText) THEN Append(F[k - 1], k)
        ELSE F[k - 1]
  IN F[Len(messages)]

\* The search effect, run when searchText or messages changed: a blank search
\* text clears foundIds; any other sets foundIds and currentMatchIndex 0.
ChatSearchEffect(searchText, messages) ==
  IF Chat_trim(searchText) = ""
    THEN c_foundIds' = <<>> /\ c_currentMatchIndex' = c_currentMatchIndex
    ELSE c_foundIds' = Chat_matches(messages, searchText) /\ c_currentMatchIndex' = 0

\* useEffect(() => { fetchLatestDocument() }, []).
ChatMount ==
  /\ focus = "Chat"
  /\ ~c_mounted
  /\ c_mounted' = TRUE
  /\ c_mountFetch' = TRUE
  /\ last' = Quiet
  /\ UNCHANGED <<c_currentDocumentId, c_messages, c_isTyping, c_chat, c_sent>>
  /\ UNCHANGED searchVars
  /\ UNCHANGED <<srvVars, focus, upVars, filterVars, dlVars, homeVars>>

\* fetchLatestDocument, the GET answered: docs[0] is selected and announced.
ChatMountFetchOk ==
  /\ c_mountFetch
  /\ c_mountFetch' = FALSE
  /\ LET data == ListResponse(store, api)
         docs == Chat_docsOf(data) IN
       /\ c_currentDocumentId' =
            IF Len(docs) > 0 THEN docs[1].document_id ELSE c_currentDocumentId
       /\ c_messages' =
            IF Len(docs) > 0
              THEN Append(c_messages,
                          [isUser |-> FALSE, text |-> <<"page", "selected", docs[1].document_id>>])
              ELSE c_messages
       /\ last' = [op |-> "ChatMountFetchOk", data |-> data]
  /\ UNCHANGED <<c_mounted, c_isTyping, c_chat, c_sent>>
  /\ IF c_messages' # c_messages
       THEN ChatSearchEffect(c_searchText, c_messages')
       ELSE UNCHANGED <<c_foundIds, c_currentMatchIndex>>
  /\ UNCHANGED <<c_isSearchMode, c_searchText>>
  /\ UNCHANGED <<srvVars, focus, upVars, filterVars, dlVars, homeVars>>

\* fetchLatestDocument, the GET failed: catch { console.error }.
ChatMountFetchFail ==
  /\ c_mountFetch
  /\ c_mountFetch' = FALSE
  /\ last' = Quiet
  /\ UNCHANGED <<c_mounted, c_currentDocumentId, c_messages, c_isTyping, c_chat, c_sent>>
  /\ UNCHANGED searchVars
  /\ UNCHANGED <<srvVars, focus, upVars, filterVars, dlVars, homeVars>>

\* A request that also carries the conversation so far.
ChatRequest_withTurns(question, documentId) ==
  [question |-> question, document_id |-> documentId,
   max_tokens |-> MaxTokens + Len(c_messages)]

\* The request sendMessageToBackend posts.
ChatRequest(question, documentId) ==
  [question |-> question, document_id |-> documentId, max_tokens |-> MaxTokens]

\* A sendMessage that returns early while no document is selected.
ChatSend_needsDocument(q, via) ==
  /\ focus = "Chat"
  /\ c_mounted
  /\ ~c_isSearchMode
  /\ c_currentDocumentId # NoDoc
  /\ via = "button" => ~c_isTyping
  /\ c_sent < MaxSends
  /\ c_messages' = Append(c_messages, [isUser |-> TRUE, text |-> <<q>>])
  /\ c_isTyping' = TRUE
  /\ c_chat' = Append(c_chat, ChatRequest(q, c_currentDocumentId))
  /\ c_sent' = c_sent + 1
  /\ last' = [op |-> "sendMessage", via |-> via,
              request |-> ChatRequest(q, c_currentDocumentId),
              latest |-> Len(store)]
  /\ UNCHANGED <<c_mounted, c_mountFetch, c_currentDocumentId>>
  /\ ChatSearchEffect(c_searchText, c_messages')
  /\ UNCHANGED <<c_isSearchMode, c_searchText>>
  /\ UNCHANGED <<srvVars, focus, upVars, filterVars, dlVars, homeVars>>

\* sendMessage(textToSend), up to the await: from the send button (disabled
\* while isTyping) or from a suggested-question chip.
ChatSend(q, via) ==
  /\ focus = "Chat"
  /\ c_mounted
  /\ ~c_isSearchMode
  /\ via = "button" => ~c_isTyping
  /\ c_sent < MaxSends
  /\ c_messages' = Append(c_messages, [isUser |-> TRUE, text |-> <<q>>])
  /\ c_isTyping' = TRUE
  /\ c_chat' = Append(c_chat, ChatRequest(q, c_currentDocumentId))
  /\ c_sent' = c_sent + 1
  /\ last' = [op |-> "sendMessage", via |-> via,
              request |-> ChatRequest(q, c_currentDocumentId),
              latest |-> Len(store)]
  /\ UNCHANGED <<c_mounted, c_mountFetch, c_currentDocumentId>>
  /\ ChatSearchEffect(c_searchText, c_messages')
  /\ UNCHANGED <<c_isSearchMode, c_searchText>>
  /\ UNCHANGED <<srvVars, focus, upVars, filterVars, dlVars, homeVars>>

\* sendMessage after the await, without the finally block's setIsTyping(false).
ChatReply_keepsTyping(i, outcome) ==
  /\ i \in 1..Len(c_chat)
  /\ outcome \in ChatOutcomes(store, c_chat[i])
  /\ c_messages' = Append(c_messages, [isUser |-> FALSE, text |-> ReplyOf(outcome)])
  /\ c_chat' = RemoveAt(c_chat, i)
  /\ last' = [op |-> "chatReply", request |-> c_chat[i], outcome |-> outcome,
              status |-> IF c_chat[i].document_id \in 1..Len(store)
                           THEN store[c_chat[i].document_id].status ELSE "none",
              reply |-> ReplyOf(outcome)]
  /\ UNCHANGED <<c_mounted, c_mountFetch, c_currentDocumentId, c_sent, c_isTyping>>
  /\ ChatSearchEffect(c_searchText, c_messages')
  /\ UNCHANGED <<c_isSearchMode, c_searchText>>
  /\ UNCHANGED <<srvVars, focus, upVars, filterVars, dlVars, homeVars>>

\* sendMessage after the await: the i-th pending request ends, the reply is
\* appended and isTyping is cleared.
ChatReply(i, outcome) ==
  /\ i \in 1..Len(c_chat)
  /\ outcome \in ChatOutcomes(store, c_chat[i])
  /\ c_messages' = Append(c_messages, [isUser |-> FALSE, text |-> ReplyOf(outcome)])
  /\ c_isTyping' = FALSE
  /\ c_chat' = RemoveAt(c_chat, i)
  /\ last' = [op |-> "chatReply", request |-> c_chat[i], outcome |-> outcome,
              status |-> IF c_chat[i].document_id \in 1..Len(store)
                           THEN store[c_chat[i].document_id].status ELSE "none",
              reply |-> ReplyOf(outcome)]
  /\ UNCHANGED <<c_mounted, c_mountFetch, c_currentDocumentId, c_sent>>
  /\ ChatSearchEffect(c_searchText, c_messages')
  /\ UNCHANGED <<c_isSearchMode, c_searchText>>
  /\ UNCHANGED <<srvVars, focus, upVars, filterVars, dlVars, homeVars>>

\* The search icon: setIsSearchMode(true).
ChatOpenSearch ==
  /\ focus = "Chat"
  /\ c_mounted
  /\ ~c_isSearchMode
  /\ c_isSearchMode' = TRUE
  /\ last' = Quiet
  /\ UNCHANGED <<c_searchText, c_foundIds, c_currentMatchIndex>>
  /\ UNCHANGED <<c_mounted, c_mountFetch, c_currentDocumentId, c_messages, c_isTyping,
                 c_chat, c_sent>>
  /\ UNCHANGED <<srvVars, focus, upVars, filterVars, dlVars, homeVars>>

\* onChangeText={setSearchText} in the search header, and the search effect.
ChatSearchEdit(text) ==
  /\ c_isSearchMode
  /\ text # c_searchText
  /\ c_searchText' = text
  /\ ChatSearchEffect(text, c_messages)
  /\ last' = [op |-> "setSearchText"]
  /\ UNCHANGED c_isSearchMode
  /\ UNCHANGED <<c_mounted, c_mountFetch, c_currentDocumentId, c_messages, c_isTyping,
                 c_chat, c_sent>>
  /\ UNCHANGED <<srvVars, focus, upVars, filterVars, dlVars, homeVars>>

\* (prev - 1 + foundIds.length) % foundIds.length
PrevIndex(prev, length) == (prev - 1 + length) % length

\* prev + 1, without the modulus.
NextIndex_noWrap(prev, length) == prev + 1

\* (prev + 1) % foundIds.length
NextIndex(prev, length) == (prev + 1) % length

\* handlePrevMatch: nothing without matches.
ChatPrevMatch ==
  /\ c_isSearchMode
  /\ c_currentMatchIndex' =
       IF Len(c_foundIds) = 0 THEN c_currentMatchIndex
       ELSE PrevIndex(c_currentMatchIndex, Len(c_foundIds))
  /\ last' = [op |-> "handlePrevMatch"]
  /\ UNCHANGED <<c_isSearchMode, c_searchText, c_foundIds>>
  /\ UNCHANGED <<c_mounted, c_mountFetch, c_currentDocumentId, c_messages, c_isTyping,
                 c_chat, c_sent>>
  /\ UNCHANGED <<srvVars, focus, upVars, filterVars, dlVars, homeVars>>

\* handleNextMatch: nothing without matches.
ChatNextMatch ==
  /\ c_isSearchMode
  /\ c_currentMatchIndex' =
       IF Len(c_foundIds) = 0 THEN c_currentMatchIndex
       ELSE NextIndex(c_currentMatchIndex, Len(c_foundIds))
  /\ last' = [op |-> "handleNextMatch"]
  /\ UNCHANGED <<c_isSearchMode, c_searchText, c_foundIds>>
  /\ UNCHANGED <<c_mounted, c_mountFetch, c_currentDocumentId, c_messages, c_isTyping,
                 c_chat, c_sent>>
  /\ UNCHANGED <<srvVars, focus, upVars, filterVars, dlVars, homeVars>>

\* closeSearch: search mode off, the text and foundIds cleared.
ChatCloseSearch ==
  /\ c_isSearchMode
  /\ c_isSearchMode' = FALSE
  /\ c_searchText' = ""
  /\ c_foundIds' = <<>>
  /\ last' = [op |-> "closeSearch"]
  /\ UNCHANGED c_currentMatchIndex
  /\ UNCHANGED <<c_mounted, c_mountFetch, c_currentDocumentId, c_messages, c_isTyping,
                 c_chat, c_sent>>
  /\ UNCHANGED <<srvVars, focus, upVars, filterVars, dlVars, homeVars>>

\* --------------------------------------------------- DocumentUploadScreen
\* The multipart part handleUpload appends to the form.
FormPart(file) ==
  [name |-> file.name,
   type |-> IF file.mimeType = "undefined" THEN "application/pdf" ELSE file.mimeType,
   bytes |-> file.bytes, size |-> file.size]

\* handleUpload starts: the picker opens.
UploadPress ==
  /\ focus = "Upload"
  /\ ~u_isUploading
  /\ ~u_picking
  /\ u_picks < MaxUploads
  /\ u_uploadStatus' = "picking"
  /\ u_picking' = TRUE
  /\ u_picks' = u_picks + 1
  /\ last' = Quiet
  /\ UNCHANGED <<u_isUploading, u_post>>
  /\ UNCHANGED <<srvVars, focus, filterVars, dlVars, homeVars, chatVars>>

\* result.canceled: the status says so and handleUpload returns.
UploadCancel ==
  /\ u_picking
  /\ u_picking' = FALSE
  /\ u_uploadStatus' = "cancelled"
  /\ u_isUploading' = FALSE
  /\ last' = Quiet
  /\ UNCHANGED <<u_post, u_picks>>
  /\ UNCHANGED <<srvVars, focus, filterVars, dlVars, homeVars, chatVars>>

\* getDocumentAsync rejects (the picker could not be shown or read the
\* file): catch sets the failure status and alert; nothing is posted.
UploadPickerFail ==
  /\ u_picking
  /\ u_picking' = FALSE
  /\ u_uploadStatus' = "failure"
  /\ u_isUploading' = FALSE
  /\ last' = Quiet
  /\ UNCHANGED <<u_post, u_picks>>
  /\ UNCHANGED <<srvVars, focus, filterVars, dlVars, homeVars, chatVars>>

\* A file was picked: isUploading is set and the form is posted.
UploadPicked(file) ==
  /\ u_picking
  /\ u_picking' = FALSE
  /\ u_isUploading' = TRUE
  /\ u_uploadStatus' = "uploading"
  /\ u_post' = <<[file |-> file, part |-> FormPart(file), state |-> "sent",
                  http |-> NoResponse, created |-> NoDoc]>>
  /\ last' = Quiet
  /\ UNCHANGED u_picks
  /\ UNCHANGED <<srvVars, focus, filterVars, dlVars, homeVars, chatVars>>

\* POST /api/v1/documents/upload reaches the backend: create, answered with
\* the document summary or with an HTTP error.
UploadServe ==
  /\ u_post # <<>>
  /\ u_post[1].state = "sent"
  /\ LET part == u_post[1].part
         r    == create(store, part.bytes, part.size, part.name, part.type) IN
       /\ store' = r.store
       /\ srv_err' = r.err
       /\ u_post' = <<[u_post[1] EXCEPT !.state = "answered",
                                       !.http = IF r.err = "ok" THEN 200 ELSE 400,
                                       !.created = r.document_id]>>
  /\ last' = Quiet
  /\ UNCHANGED <<runs, api, focus, filterVars>>
  /\ UNCHANGED <<u_uploadStatus, u_isUploading, u_picking, u_picks>>
  /\ UNCHANGED <<dlVars, homeVars, chatVars>>

\* The POST resolved: the success status and alert; finally clears isUploading.
UploadOk ==
  /\ u_post # <<>>
  /\ u_post[1].state = "answered"
  /\ u_post[1].http = 200
  /\ u_uploadStatus' = "success"
  /\ u_isUploading' = FALSE
  /\ u_post' = <<>>
  /\ last' = [op |-> "handleUpload", file |-> u_post[1].file, part |-> u_post[1].part,
              created |-> u_post[1].created, status |-> "success"]
  /\ UNCHANGED <<u_picking, u_picks>>
  /\ UNCHANGED <<srvVars, focus, filterVars, dlVars, homeVars, chatVars>>

\* The POST was rejected, had handleUpload no finally block.
UploadFail_noFinally ==
  /\ u_post # <<>>
  /\ u_uploadStatus' = "failure"
  /\ u_post' = <<>>
  /\ last' = [op |-> "handleUpload", file |-> u_post[1].file, part |-> u_post[1].part,
              created |-> u_post[1].created, status |-> "failure"]
  /\ UNCHANGED <<u_picking, u_picks, u_isUploading>>
  /\ UNCHANGED <<srvVars, focus, filterVars, dlVars, homeVars, chatVars>>

\* The POST was rejected (HTTP error, network error, or the 30000 ms
\* timeout): the failure status and alert; finally clears isUploading.
UploadFail ==
  /\ u_post # <<>>
  /\ u_uploadStatus' = "failure"
  /\ u_isUploading' = FALSE
  /\ u_post' = <<>>
  /\ last' = [op |-> "handleUpload", file |-> u_post[1].file, part |-> u_post[1].part,
              created |-> u_post[1].created, status |-> "failure"]
  /\ UNCHANGED <<u_picking, u_picks>>
  /\ UNCHANGED <<srvVars, focus, filterVars, dlVars, homeVars, chatVars>>

\* ------------------------------------------------------ the specifications
\* Upload and the pipeline's own runs.
Ingestion ==
  \/ \E d \in DocIds : StartIngestion(d)
  \/ \E d \in DocIds : \E i \in 1..Len(runs[d]) : \E o \in {"completed", "failed"} :
       FinishIngestion(d, i, o)

Pipeline ==
  \/ Upload
  \/ Ingestion

Uploading ==
  \/ UploadPress
  \/ UploadCancel
  \/ UploadPickerFail
  \/ \E file \in Files : UploadPicked(file)
  \/ UploadServe
  \/ UploadOk
  \/ UploadFail

Listing ==
  \/ DLFocus
  \/ DLRefresh
  \/ DLFetchOk
  \/ DLFetchFail

Analyzing ==
  \/ \E i \in 1..Len(dl_documents) : DLTap(i)
  \/ DLConfirm
  \/ DLDismiss
  \/ DLDoneOk
  \/ \E d \in DocIds : ServerAnalyze(d)
  \/ \E d \in DocIds : DLAnalyzeLost(d)
  \/ \E d \in DocIds : \E i \in 1..Len(runs[d]) : DLAnalyzeTimeout(d, i)

Home ==
  \/ HomeMount
  \/ HomeRefresh
  \/ HomeFetchOk
  \/ HomeFetchFail
  \/ \E i \in 1..Len(h_notifications) : HomeNotificationPress(i)

ChatSelect ==
  \/ ChatMount
  \/ ChatMountFetchOk
  \/ ChatMountFetchFail

Chatting ==
  \/ \E q \in Questions : \E via \in {"button", "chip"} : ChatSend(q, via)
  \/ \E i \in 1..Len(c_chat) : \E o \in ChatOutcomes(store, c_chat[i]) : ChatReply(i, o)

\* The backend's requests of other clients, and stray status writes.
Requests ==
  \/ \E d \in DocIds : AnalyzeRequest(d)

StrayWrites ==
  \/ \E d \in DocIds : \E new \in Statuses : IllegalUpdate(d, new)

\* The backend and the three screens that list its documents.
Next == Pipeline \/ Requests \/ Listing \/ Home \/ ChatSelect

Spec == Init /\ [][Next]_vars

\* The document lifecycle, as DocumentListScreen lists it.
InitStore == Init /\ focus = "Documents"

NextStore == Pipeline \/ Requests \/ StrayWrites \/ Listing

SpecStore == InitStore /\ [][NextStore]_vars

\* The store with runs that end: each document's extractor returns or fails.
RunEnds(d) ==
  \E i \in 1..Len(runs[d]) : \E o \in {"completed", "failed"} : FinishIngestion(d, i, o)
NextStoreLive == Pipeline \/ Requests \/ StrayWrites
SpecStoreLive == InitStore /\ [][NextStoreLive]_vars /\ \A d \in DocIds : WF_vars(RunEnds(d))

\* DocumentListScreen's analyze requests against the pipeline.
InitAnalyze == Init /\ focus = "Documents" /\ api = [shape |-> "wrapped", dialect |-> "english"]

NextAnalyze ==
  \/ Pipeline
  \/ DLFocus
  \/ DLFetchOk
  \/ Analyzing

SpecAnalyze == InitAnalyze /\ [][NextAnalyze]_vars

\* ChatScreen against the backend.
InitChat == Init /\ focus = "Chat" /\ api.dialect = "english"

NextChat == Pipeline \/ ChatSelect \/ Chatting

SpecChat == InitChat /\ [][NextChat]_vars

\* DocumentUploadScreen, the documents it creates and their analysis.
InitUpload == InitOn({"Upload"}) /\ api = [shape |-> "wrapped", dialect |-> "english"]
NextUpload == Uploading \/ Ingestion \/ Requests
SpecUpload == InitUpload /\ [][NextUpload]_vars

\* HomeScreen and ChatScreen over a store that several uploads fill.
InitNewest == InitOn({"Home", "Chat"}) /\ api.dialect = "english"
NextNewest == (\E file \in {ReportPdf, CopyPdf} : UploadAnother(file)) \/ Home \/ ChatSelect
SpecNewest == InitNewest /\ [][NextNewest]_vars

\* ChatScreen over uploads, with the guarantee axios gives: a pending
\* POST /api/v1/chat ends, at the latest by the 30000 ms client timeout.
ChatReplies ==
  \E i \in 1..Len(c_chat) : \E o \in ChatOutcomes(store, c_chat[i]) : ChatReply(i, o)
NextChatLive == Upload \/ ChatSelect \/ Chatting
SpecChatLive == InitChat /\ [][NextChatLive]_vars /\ WF_vars(ChatReplies)

\* ChatScreen's message search while questions are sent and answered.
Searching ==
  \/ ChatOpenSearch
  \/ \E text \in SearchTexts : ChatSearchEdit(text)
  \/ ChatPrevMatch
  \/ ChatNextMatch
  \/ ChatCloseSearch
InitSearch == InitOn({"Chat"}) /\ api = [shape |-> "wrapped", dialect |-> "english"]
NextSearch ==
  \/ ChatMount
  \/ ChatMountFetchFail
  \/ \E q \in Questions : \E via \in {"button", "chip"} : ChatSend(q, via)
  \/ \E i \in 1..Len(c_chat) :
       \E o \in {x \in ChatOutcomes(store, c_chat[i]) : x.kind = "response"} : ChatReply(i, o)
  \/ Searching
SpecSearch == InitSearch /\ [][NextSearch]_vars

\* DocumentListScreen's search field and filter chips over the listings of
\* several documents.
Filtering ==
  \/ \E text \in DL_SearchTexts : DLSearchEdit(text)
  \/ \E k \in 1..Len(DL_filterCategories) : DLSelectFilter(DL_filterCategories[k])
InitFilter == InitOn({"Documents"}) /\ api.shape = "wrapped"
NextFilter ==
  \/ Len(store) = 0 /\ UploadAnother(ReportPdf)
  \/ Len(store) > 0 /\ UploadAnother(CopyPdf)
  \/ Ingestion
  \/ dl_fetches = <<>> /\ DLFocus
  \/ DLFetchOk
  \/ Filtering
SpecFilter == InitFilter /\ [][NextFilter]_vars

\* DocumentListScreen's listing fetches over a network that delays responses.
InitOverlap == InitAnalyze
NextOverlap == Pipeline \/ Listing \/ DLFetchAnswered
SpecOverlap == InitOverlap /\ [][NextOverlap]_vars

\* ------------------------------------------------------------- properties

\* C1: every document's status changes only along uploaded -> analyzing ->
\* (completed | failed) and completed -> reanalyzing -> (completed | failed),
\* a new document starts as uploaded, and update_status with any other pair
\* fails with InvalidTransitionError and leaves the store as it was.
C1_StatusFollowsTable ==
  [][ /\ Len(store') >= Len(store)
      /\ \A d \in 1..Len(store) :
           \/ store'[d].status = store[d].status
           \/ <<store[d].status, store'[d].status>> \in Transitions
      /\ \A d \in (Len(store) + 1)..Len(store') : store'[d].status = "uploaded"
      /\ (last'.op = "update_status" /\ <<last'.old, last'.new>> \notin Transitions)
           => (last'.err = "InvalidTransitionError" /\ store' = store)
    ]_vars

\* A completed document on which the write completed -> uploaded was refused.
C1_Witness ==
  /\ last.op = "update_status"
  /\ last.old = "completed"
  /\ last.new = "uploaded"
  /\ last.err = "InvalidTransitionError"
  /\ store[last.doc].status = "completed"
  /\ store[last.doc].content # NoContent

\* C2: a failed chat request is answered in the conversation by the timeout
\* text when the error is the client timeout, by the upload-first text when
\* the HTTP status is 404, by the server-problem text when it is 500, and by
\* the generic connection-error text with the error's message otherwise; the
\* reply shown tells the three fixed cases apart.
C2_ErrorReplies ==
  (last.op = "chatReply" /\ last.outcome.kind = "error") =>
    LET e == last.outcome.error
        r == last.reply
    IN /\ c_messages # <<>>
       /\ c_messages[Len(c_messages)] = [isUser |-> FALSE, text |-> r]
       /\ e.code = "ECONNABORTED" => r = TimeoutText
       /\ (e.code # "ECONNABORTED" /\ e.status = 404) => r = NoDocText
       /\ (e.code # "ECONNABORTED" /\ e.status = 500) => r = ServerText
       /\ (e.code # "ECONNABORTED" /\ e.status \notin {404, 500}) => r = GenericText(e.message)
       /\ r = TimeoutText => e.code = "ECONNABORTED"
       /\ r = NoDocText => e.status = 404
       /\ r = ServerText => e.status = 500

\* A request that the service answered with HTTP 500 got the server-problem
\* text.
C2_Witness ==
  /\ last.op = "chatReply"
  /\ last.outcome.kind = "error"
  /\ last.outcome.error.status = 500
  /\ last.reply = ServerText
  /\ c_messages[Len(c_messages)].text = ServerText

\* C3: a failed GET /api/v1/documents leaves the screen's document list (and
\* HomeScreen's notifications) as they were and only clears loading and
\* refreshing.
C3_FetchFailureKeepsList ==
  [][ /\ last'.op = "DLFetchFail" =>
           /\ dl_documents' = dl_documents
           /\ ~dl_loading' /\ ~dl_refreshing'
           /\ UNCHANGED <<dl_dialog, dl_done, dl_posts, srvVars, homeVars, chatVars>>
      /\ last'.op = "HomeFetchFail" =>
           /\ h_documents' = h_documents
           /\ h_notifications' = h_notifications
           /\ ~h_loading' /\ ~h_refreshing'
           /\ UNCHANGED <<h_mounted, srvVars, dlVars, chatVars>>
    ]_vars

\* A refresh of DocumentListScreen failed while documents were listed.
C3_Witness ==
  /\ last.op = "DLFetchFail"
  /\ dl_documents # <<>>
  /\ ~dl_loading /\ ~dl_refreshing

\* C4: at most one analysis run is in flight for a document, and a document
\* has a run exactly while it is analyzing or reanalyzing: a second analyze
\* request for it is refused.
C4_OneRunPerDocument ==
  \A d \in DocIds :
    /\ Len(runs[d]) <= 1
    /\ d \in 1..Len(store) =>
         (Len(runs[d]) = 1 <=> store[d].status \in {"analyzing", "reanalyzing"})
    /\ d \notin 1..Len(store) => runs[d] = <<>>

\* A second POST /api/v1/analyze for a document was refused while the run the
\* first one started is in flight.
C4_Witness ==
  \E d \in DocIds :
    /\ runs[d] = <<"post">>
    /\ last.op = "update_status"
    /\ last.doc = d
    /\ last.old = "analyzing"
    /\ last.err = "InvalidTransitionError"

\* C5: a chat request about a document that is uploaded, analyzing or failed
\* never gets an answer; the service answers it with DocumentNotReadyError as
\* HTTP 404 and ChatScreen appends the upload-first reply, also for the
\* document it selected at mount.
C5_NotReadyIsUploadFirst ==
  (last.op = "chatReply" /\ last.status \in {"uploaded", "analyzing", "failed"}) =>
    /\ last.outcome.kind = "error"
    /\ last.outcome.server # NoAnswer =>
         /\ last.outcome.server.http = 404
         /\ last.outcome.server.error = "DocumentNotReadyError"
         /\ last.reply = NoDocText
         /\ c_messages[Len(c_messages)] = [isUser |-> FALSE, text |-> NoDocText]

\* The document selected at mount is still uploaded and the question about it
\* got the upload-first reply.
C5_Witness ==
  /\ last.op = "chatReply"
  /\ last.status = "uploaded"
  /\ c_currentDocumentId # NoDoc
  /\ last.request.document_id = c_currentDocumentId
  /\ last.outcome.server.error = "DocumentNotReadyError"
  /\ last.reply = NoDocText

\* C6: every chat request carries the id of the newest document in the store
\* at the time the question is sent, and null only when there is none.
C6_SendsNewestDocument ==
  last.op = "sendMessage" => last.request.document_id = last.latest

\* C7: no lifecycle status listed on DocumentListScreen or HomeScreen falls
\* into the default branch of that screen's getStatusText or getStatusColor.
C7_NoDefaultBranch ==
  api.dialect = "english" =>
    /\ \A i \in 1..Len(dl_documents) :
         /\ dl_documents[i].status \in DL_textCases
         /\ DL_getStatusText(dl_documents[i].status) \in DL_colorCases
    /\ \A i \in 1..Len(h_documents) :
         /\ h_documents[i].status \in Home_textCases
         /\ h_documents[i].status \in Home_colorCases

\* C8: after a successful GET /api/v1/documents each screen holds the
\* documents the response carries, whether wrapped in an object or sent as a
\* bare array.
C8_BothShapesRead ==
  /\ last.op = "DLFetchOk" => dl_documents = Carried(last.data)
  /\ last.op = "HomeFetchOk" => h_documents = Carried(last.data)
  /\ last.op = "ChatMountFetchOk" =>
       c_currentDocumentId =
         IF Carried(last.data) = <<>> THEN NoDoc ELSE Carried(last.data)[1].document_id

\* C9: on each screen 'analyzed' is treated as 'completed' and 'reanalyzing'
\* as 'analyzing', in label, colour and what the document offers.
C9_AliasesAlike ==
  /\ \A i \in 1..Len(h_documents) :
       LET s == h_documents[i].status
           t == IF s = "analyzed" THEN "completed"
                ELSE IF s = "reanalyzing" THEN "analyzing" ELSE s
       IN /\ Home_getStatusText(s) = Home_getStatusText(t)
          /\ Home_getStatusColor(s) = Home_getStatusColor(t)
          /\ Home_isCompletedDoc(s) = Home_isCompletedDoc(t)
          /\ Home_mainCardNavigates(s) = Home_mainCardNavigates(t)
  /\ \A i \in 1..Len(dl_documents) :
       LET s == dl_documents[i].status
           t == IF s = "analyzed" THEN "completed"
                ELSE IF s = "reanalyzing" THEN "analyzing" ELSE s
       IN /\ DL_getStatusText(s) = DL_getStatusText(t)
          /\ DL_badge(s) = DL_badge(t)
          /\ DL_canAnalyze(s) = DL_canAnalyze(t)
          /\ DL_alreadyAnalyzed(s) = DL_alreadyAnalyzed(t)

\* C10: DocumentListScreen shows a status sent as a Korean label like the
\* English status of the same stage.
C10_KoreanLabelsAlike ==
  \A i \in 1..Len(dl_documents) :
    LET s == dl_documents[i].status
        t == CASE s \in {"bunseokwanryo", "bunseok wanryo"} -> "completed"
               [] s \in {"bunseokjung", "bunseok jung"} -> "analyzing"
               [] s \in {"eoprodeuwanryo", "eoprodeu wanryo"} -> "uploaded"
               [] OTHER -> s
    IN /\ DL_getStatusText(s) = DL_getStatusText(t)
       /\ DL_badge(s) = DL_badge(t)

\* C11: every sendMessage call with non-blank text finishes: its request
\* ends (answer, error or client timeout), exactly one non-user reply is
\* appended for it, and isTyping is set back to false.
C11_SendFinishes ==
  /\ [](LET replies == {i \in 1..Len(c_messages) : ~c_messages[i].isUser}
            asked   == {i \in 1..Len(c_messages) : c_messages[i].isUser}
        IN /\ Cardinality(asked) = c_sent
           /\ Cardinality(replies) =
                1 + (IF c_currentDocumentId # NoDoc THEN 1 ELSE 0) + (c_sent - Len(c_chat)))
  /\ [][ last'.op = "chatReply" =>
           /\ c_messages' = Append(c_messages, [isUser |-> FALSE, text |-> last'.reply])
           /\ last'.reply # <<>>
           /\ Len(c_chat') = Len(c_chat) - 1
           /\ ~c_isTyping' ]_vars
  /\ (c_chat # <<>>) ~> (c_chat = <<>> /\ ~c_isTyping)

\* Every question sent was ended, the last one by the client timeout.
C11_Witness ==
  /\ last.op = "chatReply"
  /\ last.outcome.error = TimeoutError
  /\ c_sent = MaxSends
  /\ c_chat = <<>>
  /\ ~c_isTyping
  /\ c_messages[Len(c_messages)] = [isUser |-> FALSE, text |-> TimeoutText]

\* C12: with no document selected a non-blank question can still be sent,
\* the request posted carries document_id null, and a successful response to
\* it is appended as an ordinary answer.
C12_NullDocumentStillSends ==
  /\ (c_mounted /\ c_currentDocumentId = NoDoc /\ c_sent < MaxSends) =>
       /\ ENABLED (\E q \in Questions : ChatSend(q, "chip"))
       /\ ~c_isTyping => ENABLED (\E q \in Questions : ChatSend(q, "button"))
  /\ (last.op = "sendMessage" /\ c_currentDocumentId = NoDoc) =>
       /\ last.request.document_id = NoDoc
       /\ c_chat # <<>>
       /\ c_chat[Len(c_chat)] = last.request
       /\ c_isTyping
  /\ (last.op = "chatReply" /\ last.request.document_id = NoDoc
        /\ last.outcome.kind = "response") =>
       /\ last.reply \in {<<last.outcome.server.data.answer>>,
                          <<last.outcome.server.data.response>>, FallbackText}
       /\ last.reply \notin {<<"undefined">>, <<"">>, TimeoutText, NoDocText, ServerText}
       /\ c_messages[Len(c_messages)] = [isUser |-> FALSE, text |-> last.reply]

\* No document is selected although one exists, and the question sent with
\* document_id null was answered.
C12_Witness ==
  /\ last.op = "chatReply"
  /\ c_currentDocumentId = NoDoc
  /\ last.request.document_id = NoDoc
  /\ last.outcome.kind = "response"
  /\ last.reply = <<"A">>
  /\ c_messages[Len(c_messages)] = [isUser |-> FALSE, text |-> <<"A">>]

\* C13: on a successful chat response the reply is data.answer when present
\* and non-empty, else data.response when present and non-empty, else the
\* fixed fallback text; the appended reply is never empty.
C13_SuccessReplyFallsBack ==
  (last.op = "chatReply" /\ last.outcome.kind = "response") =>
    LET d      == last.outcome.server.data
        absent == {"undefined", ""}
    IN /\ d.answer \notin absent => last.reply = <<d.answer>>
       /\ (d.answer \in absent /\ d.response \notin absent) => last.reply = <<d.response>>
       /\ (d.answer \in absent /\ d.response \in absent) => last.reply = FallbackText
       /\ last.reply # <<>>
       /\ \A i \in 1..Len(last.reply) : last.reply[i] \notin absent
       /\ c_messages[Len(c_messages)] = [isUser |-> FALSE, text |-> last.reply]

\* A response with an empty answer and no response field got the fallback
\* text.
C13_Witness ==
  /\ last.op = "chatReply"
  /\ last.outcome.kind = "response"
  /\ last.outcome.server.data = [answer |-> "", response |-> "undefined"]
  /\ last.reply = FallbackText
  /\ c_messages[Len(c_messages)].text = FallbackText

\* C14 (as stated): a document's extracted content is non-null if and only
\* if its status is completed or reanalyzing.
C14_ContentIffCompletedOrReanalyzing ==
  \A d \in 1..Len(store) :
    store[d].content # NoContent <=> store[d].status \in {"completed", "reanalyzing"}

\* C14 (amended): a document's extracted content is non-null if and only if
\* the document has been completed: a completed or reanalyzing document has
\* content, an uploaded or analyzing one has none, and a failure leaves the
\* content as it was, so a document that fails in re-analysis keeps its old
\* content and one that fails in its first analysis has none.
C14_ContentIffEverCompleted ==
  /\ [](\A d \in 1..Len(store) :
          /\ store[d].status \in {"completed", "reanalyzing"} => store[d].content # NoContent
          /\ store[d].status \in {"uploaded", "analyzing"} => store[d].content = NoContent)
  /\ [][\A d \in 1..Len(store) :
          /\ (store'[d].status = "failed" /\ store[d].status = "analyzing")
               => store'[d].content = NoContent
          /\ (store'[d].status = "failed" /\ store[d].status = "reanalyzing")
               => (store'[d].content = store[d].content /\ store'[d].content # NoContent)
          /\ (store'[d].status = "failed" /\ store[d].status = "failed")
               => store'[d].content = store[d].content]_vars

\* A document whose re-analysis failed still holds the content of its
\* earlier analysis.
C14_Witness ==
  \E d \in 1..Len(store) :
    /\ store[d].status = "failed"
    /\ store[d].content # NoContent
    /\ runs[d] = <<>>

C16_InvalidFileNeverUploaded ==
  (last.op = "handleUpload"
     /\ (last.file.size > SizeLimit \/ ~SupportedMime(last.file.kind))) =>
    /\ last.created = NoDoc
    /\ last.status = "failure"
    /\ u_uploadStatus = "failure"

\* C17: the payload of a chat request is determined by the question text and
\* the selected document id alone, with max_tokens 1000, whatever the
\* conversation holds.
C17_RequestIgnoresHistory ==
  last.op = "sendMessage" =>
    /\ c_messages[Len(c_messages)].isUser
    /\ \E q \in Questions :
         /\ c_messages[Len(c_messages)].text = <<q>>
         /\ last.request = [question |-> q, document_id |-> c_currentDocumentId,
                            max_tokens |-> 1000]
    /\ c_chat[Len(c_chat)] = last.request
    /\ \A i \in 1..Len(c_chat) :
         (c_chat[i].question = last.request.question
            /\ c_chat[i].document_id = last.request.document_id) => c_chat[i] = last.request

\* A second question sent after the first one was answered.
C17_Witness ==
  /\ last.op = "sendMessage"
  /\ c_sent = 2
  /\ Len(c_chat) = 1
  /\ \E i \in 1..Len(c_messages) : c_messages[i] = [isUser |-> FALSE, text |-> <<"A">>]
  /\ last.request.max_tokens = 1000

\* C18: list() returns the documents newest first, index 0 being the one
\* with the latest created_at, and that document is the one HomeScreen holds
\* as latest document and the one ChatScreen selects.
C18_NewestFirst ==
  /\ LET l == List(store, api.dialect) IN
       /\ Len(l) = Len(store)
       /\ \A i, j \in 1..Len(l) : i < j => l[i].created_at > l[j].created_at
       /\ \A d \in 1..Len(store) : store[d].created_at <= l[1].created_at
  /\ (last.op = "HomeFetchOk" /\ h_documents # <<>>) =>
       /\ h_documents = Carried(last.data)
       /\ \A d \in 1..Len(store) : store[d].created_at <= h_documents[1].created_at
       /\ store[h_documents[1].document_id].created_at = h_documents[1].created_at
  /\ (last.op = "ChatMountFetchOk" /\ Chat_docsOf(last.data) # <<>>) =>
       /\ c_currentDocumentId \in 1..Len(store)
       /\ \A d \in 1..Len(store) :
            store[d].created_at <= store[c_currentDocumentId].created_at

\* HomeScreen fetched two documents and holds the second upload first.
C18_Witness ==
  /\ last.op = "HomeFetchOk"
  /\ Len(store) = 2
  /\ Len(h_documents) = 2
  /\ h_documents[1].document_id = 2
  /\ h_documents[1].created_at > h_documents[2].created_at

\* C19: document ids are pairwise distinct over all documents created, a
\* document's document_id, filename and created_at never change, and no
\* document is removed from the store.
C19_IdentityIsStable ==
  /\ [](\A i, j \in 1..Len(store) :
          i # j => store[i].document_id # store[j].document_id)
  /\ [][ /\ Len(store') >= Len(store)
         /\ \A d \in 1..Len(store) :
              /\ store'[d].document_id = store[d].document_id
              /\ store'[d].filename = store[d].filename
              /\ store'[d].created_at = store[d].created_at ]_vars

\* The same file was uploaded twice: two documents of one name with
\* different ids, the first of them analysed since.
C19_Witness ==
  /\ Len(store) = 2
  /\ store[1].filename = store[2].filename
  /\ store[1].document_id # store[2].document_id
  /\ store[1].status = "completed"
  /\ store[1].created_at < store[2].created_at

C21_TypingWhilePending ==
  c_chat # <<>> => c_isTyping

\* C22: when listing fetches overlap on a screen, a slower, earlier fetch
\* never overwrites the result of a later one: no fetch sets the documents
\* after a fetch issued later than it has set them.
C22_LatestFetchWins ==
  [][(last'.op = "DLFetchOk" /\ last'.overtaken) => dl_documents' = dl_documents]_vars

\* C23: a notification marked read by handleNotificationItemPress stays read
\* for as long as a notification with that id is in the list, across any
\* later fetchDocuments run; hasUnread never turns true again because of it.
C23_ReadStaysRead ==
  [][\A i \in 1..Len(h_notifications) : \A j \in 1..Len(h_notifications') :
       (h_notifications[i].read /\ h_notifications'[j].id = h_notifications[i].id)
       => h_notifications'[j].read]_vars

\* C24: DocumentListScreen sends POST /api/v1/analyze for a document only
\* when the user confirms the analyze dialog, the dialog opens only for a
\* document listed as uploaded (or its Korean label), cancelling the dialog
\* sends nothing, and a failed analyze request leaves the documents unchanged.
C24_AnalyzeOnlyOnConfirm ==
  /\ [][\A d \in DocIds :
          dl_posts'[d] > dl_posts[d]
          => /\ dl_dialog = [kind |-> "confirm", doc |-> d]
             /\ last' = [op |-> "DLConfirm", doc |-> d]
             /\ dl_posts'[d] = dl_posts[d] + 1]_vars
  /\ [][(dl_dialog'.kind = "confirm" /\ dl_dialog' # dl_dialog)
          => /\ last'.op = "DLTap"
             /\ last'.doc = dl_dialog'.doc
             /\ last'.status \in {"uploaded", "eoprodeuwanryo", "eoprodeu wanryo"}
             /\ \E i \in 1..Len(dl_documents) :
                  /\ dl_documents[i].document_id = last'.doc
                  /\ dl_documents[i].status = last'.status]_vars
  /\ [][(dl_dialog.kind = "confirm" /\ dl_dialog' = NoDialog /\ last'.op # "DLConfirm")
          => dl_posts' = dl_posts]_vars
  /\ [][(\E d \in DocIds :
            \/ dl_posts'[d] < dl_posts[d] /\ runs'[d] = runs[d]
            \/ CountPosts(runs'[d]) < CountPosts(runs[d]) /\ dl_done' = dl_done)
          => dl_documents' = dl_documents]_vars

\* The dialog was confirmed for a document listed as uploaded and its request
\* is on the way.
C24_Witness ==
  /\ last.op = "DLConfirm"
  /\ dl_posts[last.doc] = 1
  /\ \E i \in 1..Len(dl_documents) :
       /\ dl_documents[i].document_id = last.doc
       /\ dl_documents[i].status = "uploaded"

\* C25: each handleUpload run issues at most one POST /api/v1/documents/upload
\* (none when the picker is cancelled) and ends with isUploading false and
\* uploadStatus the cancelled text, the success text (only after the POST
\* succeeded) or the failure text (only after the picker or the POST failed);
\* isUploading is true exactly while the POST is pending and no second upload
\* starts in that interval.
C25_UploadRunEnds ==
  /\ [](u_isUploading <=> u_post # <<>>)
  /\ [](Len(u_post) <= 1 /\ ~(u_picking /\ u_post # <<>>))
  /\ [][u_post' # <<>> /\ u_post = <<>>
         => u_picking /\ ~u_picking' /\ u_uploadStatus' = "uploading"]_vars
  /\ [][u_isUploading => u_picks' = u_picks /\ ~u_picking']_vars
  /\ [][((u_picking \/ u_post # <<>>) /\ ~(u_picking' \/ u_post' # <<>>))
         => /\ ~u_isUploading'
            /\ u_uploadStatus' \in {"cancelled", "success", "failure"}
            /\ u_uploadStatus' = "cancelled" => u_picking /\ u_post = <<>> /\ store' = store
            /\ u_uploadStatus' = "success"
                 => u_post # <<>> /\ u_post[1].state = "answered" /\ u_post[1].http = 200
            /\ u_uploadStatus' = "failure" => u_picking \/ u_post # <<>>]_vars

\* A run posted a file and ended in success after an earlier run had ended
\* without a document (cancelled or failed).
C25_Witness ==
  /\ last.op = "handleUpload"
  /\ last.status = "success"
  /\ u_picks = MaxUploads
  /\ ~u_isUploading /\ ~u_picking /\ u_post = <<>>
  /\ u_uploadStatus = "success"
  /\ Len(store) = 1

\* C26: HomeScreen's main notification card is titled 'analysis complete'
\* only when the latest document's status is a completed status, and
\* 'analysis in progress' when it is an in-analysis status.
C26_CardTellsStatus ==
  h_documents # <<>> =>
    LET status == h_documents[1].status IN
      /\ Home_mainCardTitle(status) = "complete"
           => status \in {"completed", "bunseokwanryo", "bunseok wanryo", "analyzed"}
      /\ status \in {"analyzing", "reanalyzing", "bunseokjung", "bunseok jung"}
           => Home_mainCardTitle(status) = "in-progress"

\* C27: in ChatScreen, whenever foundIds is non-empty,
\* 0 <= currentMatchIndex < foundIds.length, after any search-text edits,
\* appended messages, next/previous presses and closeSearch; next and previous
\* move cyclically through the matches, each undoing the other, and change
\* nothing when there are no matches.
C27_MatchIndexInRange ==
  /\ [](c_foundIds # <<>> => c_currentMatchIndex \in 0..(Len(c_foundIds) - 1))
  /\ [][last'.op = "handleNextMatch" =>
         IF c_foundIds = <<>> THEN UNCHANGED chatVars
         ELSE /\ c_currentMatchIndex' =
                   IF c_currentMatchIndex = Len(c_foundIds) - 1 THEN 0
                   ELSE c_currentMatchIndex + 1
              /\ PrevIndex(c_currentMatchIndex', Len(c_foundIds)) = c_currentMatchIndex
              /\ UNCHANGED <<c_foundIds, c_searchText, c_messages>>]_vars
  /\ [][last'.op = "handlePrevMatch" =>
         IF c_foundIds = <<>> THEN UNCHANGED chatVars
         ELSE /\ c_currentMatchIndex' =
                   IF c_currentMatchIndex = 0 THEN Len(c_foundIds) - 1
                   ELSE c_currentMatchIndex - 1
              /\ NextIndex(c_currentMatchIndex', Len(c_foundIds)) = c_currentMatchIndex
              /\ UNCHANGED <<c_foundIds, c_searchText, c_messages>>]_vars

\* Next was pressed on the last of several matches and wrapped to the first,
\* with a reply still to come.
C27_Witness ==
  /\ last.op = "handleNextMatch"
  /\ Len(c_foundIds) >= 2
  /\ c_currentMatchIndex = 0
  /\ c_searchText = "q"
  /\ c_chat # <<>>

\* C28: in DocumentListScreen, for the documents and the search text at hand,
\* every document whose filename matches the search text appears under
\* exactly one of the three status filters, the all filter shows exactly the
\* union of those three, and the filtered list keeps the documents' order.
C28_FiltersPartition ==
  LET all      == {DL_filterCategories[k] : k \in 1..Len(DL_filterCategories)}
      status   == all \ {"jeonche"}
      Range(q) == {q[k] : k \in 1..Len(q)}
      place(doc) == CHOOSE i \in 1..Len(dl_documents) : dl_documents[i] = doc
  IN \A shown \in {[f \in all |->
                      DL_getFilteredDocuments(dl_documents, dl_searchText, f)]} :
     \A matching \in {{dl_documents[j] : j \in
                         {i \in 1..Len(dl_documents) :
                            DL_includes(DL_toLowerCase(dl_documents[i].filename),
                                        DL_toLowerCase(dl_searchText))}}} :
       /\ \A doc \in matching :
            Cardinality({f \in status : doc \in Range(shown[f])}) = 1
       /\ Range(shown["jeonche"]) = UNION {Range(shown[f]) : f \in status}
       /\ Range(shown["jeonche"]) = matching
       /\ \A f \in all : Len(shown[f]) = Cardinality(Range(shown[f]))
       /\ \A a, b \in 1..Len(shown[dl_selectedFilter]) :
            a < b => place(shown[dl_selectedFilter][a]) < place(shown[dl_selectedFilter][b])

\* Two documents are listed, one failed and one analysed; an upper-case
\* search text matches both and the analysis-complete filter shows one.
C28_Witness ==
  /\ Len(dl_documents) = 2
  /\ dl_documents[1].status = "failed"
  /\ dl_documents[2].status \in {"completed", "analyzed", "bunseokwanryo"}
  /\ dl_searchText = "PDF"
  /\ dl_selectedFilter = "bunseok wanryo"
  /\ Len(DL_getFilteredDocuments(dl_documents, dl_searchText, dl_selectedFilter)) = 1
  /\ Len(DL_getFilteredDocuments(dl_documents, dl_searchText, "jeonche")) = 2

====
